---- MODULE Spec2Model ----
(***************************************************************************)
(* Model of src/utils/airdrop.ts: the airdrop-claim client adapter.        *)
(*                                                                         *)
(*   fetchAirdropClaim   builds the URL, issues one GET and chains         *)
(*                       fetch(url).then(json).then(handleApiResponse)     *)
(*                       .catch(network_error)                             *)
(*   handleApiResponse   maps (status, parsed body) to AirdropClaimResponse*)
(*   getTxFromUserClaim  builds the transaction descriptor from a claim    *)
(*                                                                         *)
(* The transport (fetch, Response.json) is the environment: it rejects,    *)
(* or yields a status, and then the body either parses or does not.        *)
(* JavaScript objects are records; an absent key is a key outside DOMAIN.  *)
(***************************************************************************)
EXTENDS Integers, Sequences, FiniteSets, TLC

VARIABLES pc, args, requests, transport, response, data, result, clock, tx, txClaim, txNow

callVars == <<pc, args, requests, transport, response, data, result>>
txVars == <<clock, tx, txClaim, txNow>>
vars == <<pc, args, requests, transport, response, data, result, clock, tx, txClaim, txNow>>

(***************************************************************************)
(* Bounds                                                                  *)
(***************************************************************************)
NumCalls == 2
MaxNowMs == 2000
TickMs == 250

Calls == 1..NumCalls

(***************************************************************************)
(* JavaScript values                                                       *)
(***************************************************************************)
Undefined == "<undefined>"

EmptyObject == [k \in {} |-> k]

JsonNull == [type |-> "null"]

JsonObject(o) == [type |-> "object", members |-> o]

NoData == [type |-> "undefined"]

NoResponse == [type |-> "undefined"]

NoResult == [type |-> "undefined"]

NoArgs == [type |-> "undefined"]

Get(obj, key) == IF key \in DOMAIN obj THEN obj[key] ELSE Undefined

(***************************************************************************)
(* Inputs: arguments of fetchAirdropClaim                                  *)
(***************************************************************************)
AirdropIds == {"airdrop-1"}

Addresses == {"kQABcHP_oXkYNCx3HHKd4rxL371RRl-O6IwgwqYZ7IT6Ha-u", "not an address"}

\* testnet is an optional parameter: the key is absent when the caller omits it
ArgsSet ==
    [airdropId : AirdropIds, connectedAddress : Addresses]
        \cup [airdropId : AirdropIds, connectedAddress : Addresses, testnet : BOOLEAN]

ConcArgsSet ==
    { [airdropId |-> "airdrop-1", connectedAddress |-> "not an address"],
      [airdropId |-> "airdrop-1", connectedAddress |-> "not an address", testnet |-> TRUE] }

(***************************************************************************)
(* Inputs: what the transport can deliver                                  *)
(***************************************************************************)
Statuses == {200, 201, 404, 409, 423, 425, 429, 500}

ConcStatuses == {200, 409, 500}

ClaimMessage ==
    [mode |-> 3, address |-> "kQABcHP_oXkYNCx3HHKd4rxL371RRl-O6IwgwqYZ7IT6Ha-u",
     payload |-> "te6ccgEBAQEA", amount |-> "597968399"]

BodyClaim ==
    JsonObject([jetton |-> "X", available_jetton_amount |-> "100",
                total_jetton_amount |-> "100", claimed_jetton_amount |-> "0",
                claim_message |-> ClaimMessage])

BodyInfo ==
    JsonObject([jetton |-> "X", available_jetton_amount |-> "0",
                total_jetton_amount |-> "100", claimed_jetton_amount |-> "100"])

BodyOverdrawn ==
    JsonObject([jetton |-> "X", available_jetton_amount |-> "250",
                total_jetton_amount |-> "100", claimed_jetton_amount |-> "0"])

BodyEmpty == JsonObject(EmptyObject)

Bodies == {BodyClaim, BodyInfo, BodyOverdrawn, BodyEmpty, JsonNull}

ConcBodies == {BodyClaim, BodyEmpty}

(***************************************************************************)
(* getTxFromUserClaim                                                      *)
(***************************************************************************)
ValiditySeconds == 300

MsPerSecond == 1000

\* variant: Math.round in place of Math.floor
getTxFromUserClaimRounded(userClaim, now) ==
    [validUntil |-> ((now + 500) \div MsPerSecond) + ValiditySeconds,
     messages |-> << [address |-> Get(userClaim.claim_message, "address"),
                      amount |-> Get(userClaim.claim_message, "amount"),
                      payload |-> Get(userClaim.claim_message, "payload"),
                      stateInit |-> Get(userClaim.claim_message, "state_init")] >>]

getTxFromUserClaim(userClaim, now) ==
    [validUntil |-> (now \div MsPerSecond) + ValiditySeconds,
     messages |-> << [address |-> Get(userClaim.claim_message, "address"),
                      amount |-> Get(userClaim.claim_message, "amount"),
                      payload |-> Get(userClaim.claim_message, "payload"),
                      stateInit |-> Get(userClaim.claim_message, "state_init")] >>]

(***************************************************************************)
(* handleApiResponse                                                       *)
(***************************************************************************)
\* variant: the rows of 409 and 423 exchanged
statusCodeMappingSwapped ==
    (404 :> "not_found") @@ (425 :> "too_early") @@ (409 :> "locked")
        @@ (423 :> "already_claimed") @@ (429 :> "blockchain_overload")

statusCodeMapping ==
    (404 :> "not_found") @@ (425 :> "too_early") @@ (409 :> "already_claimed")
        @@ (423 :> "locked") @@ (429 :> "blockchain_overload")

errorMessageOf(status) ==
    CASE status = 425 -> "The nearest vesting date has not arrived yet"
      [] status = 409 -> "All Jettons have already been claimed"
      [] status = 423 -> "Airdrop is locked by admin"
      [] status = 429 -> "Blockchain is currently overloaded"
      [] status = 404 -> "Airdrop not found or not processed yet"
      [] OTHER -> "Unknown error occurred"

\* variant: the success branch drops the claim view of the body
handleApiResponseInfoOnly(resp, body) ==
    IF resp.status = 200
    THEN [success |-> TRUE, info |-> body, claim |-> JsonNull]
    ELSE [success |-> FALSE, info |-> body,
          error |-> [code |-> IF resp.status \in DOMAIN statusCodeMapping
                              THEN statusCodeMapping[resp.status]
                              ELSE "unknown_error",
                     message |-> errorMessageOf(resp.status)]]

\* variant: the error branch also exposes the body as claim
handleApiResponseClaimOnError(resp, body) ==
    IF resp.status = 200
    THEN [success |-> TRUE, info |-> body, claim |-> body]
    ELSE [success |-> FALSE, info |-> body, claim |-> body,
          error |-> [code |-> IF resp.status \in DOMAIN statusCodeMapping
                              THEN statusCodeMapping[resp.status]
                              ELSE "unknown_error",
                     message |-> errorMessageOf(resp.status)]]

\* variant: info is rebuilt field by field and total is read from claimed
handleApiResponseFieldMixup(resp, body) ==
    LET info == IF body.type = "object"
                   /\ {"total_jetton_amount", "claimed_jetton_amount"} \subseteq DOMAIN body.members
                THEN JsonObject([body.members EXCEPT
                         !["total_jetton_amount"] = body.members.claimed_jetton_amount])
                ELSE body
    IN  IF resp.status = 200
        THEN [success |-> TRUE, info |-> info, claim |-> body]
        ELSE [success |-> FALSE, info |-> info,
              error |-> [code |-> IF resp.status \in DOMAIN statusCodeMapping
                                  THEN statusCodeMapping[resp.status]
                                  ELSE "unknown_error",
                         message |-> errorMessageOf(resp.status)]]

handleApiResponse(resp, body) ==
    IF resp.status = 200
    THEN [success |-> TRUE, info |-> body, claim |-> body]
    ELSE LET errorCode == IF resp.status \in DOMAIN statusCodeMapping
                          THEN statusCodeMapping[resp.status]
                          ELSE "unknown_error"
             errorMessage == errorMessageOf(resp.status)
         IN  [success |-> FALSE, info |-> body,
              error |-> [code |-> errorCode, message |-> errorMessage]]

(***************************************************************************)
(* fetchAirdropClaim                                                       *)
(***************************************************************************)
\* variant: the default of the testnet parameter is true
testnetOfDefaultTrue(a) == IF "testnet" \in DOMAIN a THEN a.testnet ELSE TRUE

testnetOf(a) == IF "testnet" \in DOMAIN a THEN a.testnet ELSE FALSE

baseUrl(a) == (IF testnetOf(a) THEN "testnet" ELSE "mainnet") \o "-airdrop.tonapi.io"

urlOf(a) ==
    "https://" \o baseUrl(a) \o "/v2/airdrop/claim/" \o a.connectedAddress
        \o "?id=" \o a.airdropId

\* completion of a promise callback: a returned value fulfils the derived
\* promise, a thrown one rejects it
Return(v) == [completion |-> "return", value |-> v]

Throw(v) == [completion |-> "throw", value |-> v]

Settle(comp) == IF comp.completion = "return" THEN "fulfilled" ELSE "rejected"

\* .then(({ response, data }) => handleApiResponse(response, data))
onParsed(resp, body) == Return(handleApiResponse(resp, body))

\* variant: the handler rethrows
onRejectedRethrow ==
    Throw([success |-> FALSE,
           error |-> [code |-> "network_error",
                      message |-> "Network error. Please try again later."]])

\* .catch(() => ({ success: false, error: { ... } }))
onRejected ==
    Return([success |-> FALSE,
            error |-> [code |-> "network_error",
                       message |-> "Network error. Please try again later."]])

Init ==
    /\ pc = [c \in Calls |-> "idle"]
    /\ args = [c \in Calls |-> NoArgs]
    /\ requests = [c \in Calls |-> << >>]
    /\ transport = [c \in Calls |-> "none"]
    /\ response = [c \in Calls |-> NoResponse]
    /\ data = [c \in Calls |-> NoData]
    /\ result = [c \in Calls |-> NoResult]
    /\ clock = 0
    /\ tx = NoResult
    /\ txClaim = NoArgs
    /\ txNow = 0

\* the synchronous part of fetchAirdropClaim: build the URL, issue the GET
Call(c, a) ==
    /\ pc[c] = "idle"
    /\ args' = [args EXCEPT ![c] = a]
    /\ requests' = [requests EXCEPT ![c] = Append(@, urlOf(a))]
    /\ pc' = [pc EXCEPT ![c] = "fetch"]
    /\ transport' = [transport EXCEPT ![c] = "pending"]
    /\ UNCHANGED <<response, data, result, txVars>>

\* fetch(url) fulfils with a Response; the first .then calls response.json()
FetchFulfil(c, s) ==
    /\ pc[c] = "fetch"
    /\ response' = [response EXCEPT ![c] = [status |-> s]]
    /\ transport' = [transport EXCEPT ![c] = "responded"]
    /\ pc' = [pc EXCEPT ![c] = "json"]
    /\ UNCHANGED <<args, requests, data, result, txVars>>

\* fetch(url) rejects: both .then are skipped
FetchReject(c) ==
    /\ pc[c] = "fetch"
    /\ transport' = [transport EXCEPT ![c] = "fetch_rejected"]
    /\ pc' = [pc EXCEPT ![c] = "catch"]
    /\ UNCHANGED <<args, requests, response, data, result, txVars>>

\* response.json() fulfils with the parsed body
JsonFulfil(c, d) ==
    /\ pc[c] = "json"
    /\ transport' = [transport EXCEPT ![c] = "parsed"]
    /\ data' = [data EXCEPT ![c] = d]
    /\ pc' = [pc EXCEPT ![c] = "then"]
    /\ UNCHANGED <<args, requests, response, result, txVars>>

\* variant: an unparseable body is treated as an empty object
JsonRejectAsEmpty(c) ==
    /\ pc[c] = "json"
    /\ transport' = [transport EXCEPT ![c] = "json_rejected"]
    /\ data' = [data EXCEPT ![c] = BodyEmpty]
    /\ pc' = [pc EXCEPT ![c] = "then"]
    /\ UNCHANGED <<args, requests, response, result, txVars>>

\* response.json() rejects: the body is not JSON
JsonReject(c) ==
    /\ pc[c] = "json"
    /\ transport' = [transport EXCEPT ![c] = "json_rejected"]
    /\ pc' = [pc EXCEPT ![c] = "catch"]
    /\ UNCHANGED <<args, requests, response, data, result, txVars>>

\* variant: the result is kept in one slot shared by every settled call
ThenShared(c) ==
    /\ pc[c] = "then"
    /\ result' = [d \in Calls |->
                     IF d = c \/ pc[d] = "fulfilled"
                     THEN handleApiResponse(response[c], data[c])
                     ELSE result[d]]
    /\ pc' = [pc EXCEPT ![c] = "fulfilled"]
    /\ UNCHANGED <<args, requests, transport, response, data, txVars>>

\* the second .then runs; .catch passes a fulfilled value through
Then(c) ==
    /\ pc[c] = "then"
    /\ LET comp == onParsed(response[c], data[c])
       IN  IF comp.completion = "return"
           THEN /\ result' = [result EXCEPT ![c] = comp.value]
                /\ pc' = [pc EXCEPT ![c] = "fulfilled"]
           ELSE /\ result' = result
                /\ pc' = [pc EXCEPT ![c] = "catch"]
    /\ UNCHANGED <<args, requests, transport, response, data, txVars>>

\* variant: a failed exchange is retried
CatchRetry(c) ==
    /\ pc[c] = "catch"
    /\ IF Len(requests[c]) < 3
       THEN /\ requests' = [requests EXCEPT ![c] = Append(@, urlOf(args[c]))]
            /\ pc' = [pc EXCEPT ![c] = "fetch"]
            /\ result' = result
       ELSE /\ requests' = requests
            /\ result' = [result EXCEPT ![c] = onRejected.value]
            /\ pc' = [pc EXCEPT ![c] = "fulfilled"]
    /\ UNCHANGED <<args, transport, response, data, txVars>>

\* the .catch handler runs and settles the promise the caller holds
Catch(c) ==
    /\ pc[c] = "catch"
    /\ LET comp == onRejected
       IN  /\ result' = [result EXCEPT ![c] = comp.value]
           /\ pc' = [pc EXCEPT ![c] = Settle(comp)]
    /\ UNCHANGED <<args, requests, transport, response, data, txVars>>

CallStep(c, A, S, B) ==
    \/ \E a \in A : Call(c, a)
    \/ \E s \in S : FetchFulfil(c, s)
    \/ FetchReject(c)
    \/ \E d \in B : JsonFulfil(c, d)
    \/ JsonReject(c)
    \/ Then(c)
    \/ Catch(c)

\* one call at a time, over every argument, status and body
Solo(c) == \A d \in Calls \ {c} : pc[d] = "idle"

SoloCall(c, a) == Solo(c) /\ Call(c, a)

Next ==
    \E c \in Calls :
        \/ \E a \in ArgsSet : SoloCall(c, a)
        \/ \E s \in Statuses : FetchFulfil(c, s)
        \/ FetchReject(c)
        \/ \E d \in Bodies : JsonFulfil(c, d)
        \/ JsonReject(c)
        \/ Then(c)
        \/ Catch(c)

Spec == Init /\ [][Next]_vars

\* every call in flight at once, interleaved in every order
ConcNext == \E c \in Calls : CallStep(c, ConcArgsSet, ConcStatuses, ConcBodies)

ConcSpec == Init /\ [][ConcNext]_vars

(***************************************************************************)
(* getTxFromUserClaim under a wall clock                                   *)
(***************************************************************************)
StateInits == {"te6ccgEBAgEA"}

MessageCore ==
    [mode : {3},
     address : {"kQABcHP_oXkYNCx3HHKd4rxL371RRl-O6IwgwqYZ7IT6Ha-u", "not an address"},
     payload : {"te6ccgEBAQEA", ""},
     amount : {"597968399", "-1.5e3"}]

\* state_init is optional
InternalMessages ==
    MessageCore
        \cup { m @@ [state_init |-> s] : m \in MessageCore, s \in StateInits }

UserClaims ==
    [jetton : {"X"}, available_jetton_amount : {"100"}, total_jetton_amount : {"100"},
     claimed_jetton_amount : {"0"}, claim_message : InternalMessages]

Tick ==
    /\ clock + TickMs <= MaxNowMs
    /\ clock' = clock + TickMs
    /\ UNCHANGED <<callVars, tx, txClaim, txNow>>

BuildTx(userClaim) ==
    /\ tx' = getTxFromUserClaim(userClaim, clock)
    /\ txClaim' = userClaim
    /\ txNow' = clock
    /\ UNCHANGED <<callVars, clock>>

TxNext == Tick \/ \E u \in UserClaims : BuildTx(u)

TxSpec == Init /\ [][TxNext]_vars

(***************************************************************************)
(* Properties                                                              *)
(***************************************************************************)
Settled(c) == pc[c] \in {"fulfilled", "rejected"}

ExchangeFailed(c) == transport[c] \in {"fetch_rejected", "json_rejected"}

NetworkError ==
    [success |-> FALSE,
     error |-> [code |-> "network_error",
                message |-> "Network error. Please try again later."]]

\* the table of section 4.1
TableRow(status) ==
    CASE status = 404 -> [code |-> "not_found",
                          message |-> "Airdrop not found or not processed yet"]
      [] status = 425 -> [code |-> "too_early",
                          message |-> "The nearest vesting date has not arrived yet"]
      [] status = 409 -> [code |-> "already_claimed",
                          message |-> "All Jettons have already been claimed"]
      [] status = 423 -> [code |-> "locked", message |-> "Airdrop is locked by admin"]
      [] status = 429 -> [code |-> "blockchain_overload",
                          message |-> "Blockchain is currently overloaded"]
      [] OTHER -> [code |-> "unknown_error", message |-> "Unknown error occurred"]

\* the result a call must produce from its own transport outcome alone
OwnResult(c) ==
    IF transport[c] # "parsed" THEN NetworkError
    ELSE IF response[c].status = 200
         THEN [success |-> TRUE, info |-> data[c], claim |-> data[c]]
         ELSE [success |-> FALSE, info |-> data[c], error |-> TableRow(response[c].status)]

\* C1: a call of fetchAirdropClaim is never rejected: whenever it has settled
\* it is fulfilled with a result that carries a success flag, whether the GET
\* threw, the body failed to parse, or a body arrived with any status.
C1_NeverRejects ==
    \A c \in Calls :
        /\ pc[c] # "rejected"
        /\ pc[c] = "fulfilled" =>
              /\ result[c] # NoResult
              /\ "success" \in DOMAIN result[c]
              /\ result[c].success \in BOOLEAN

C1_Witness ==
    \E c \in Calls : pc[c] = "fulfilled" /\ transport[c] = "fetch_rejected"

\* C2: when the exchange itself fails (the GET throws, or the body does not
\* parse, whatever the status was) the result is exactly the network_error
\* record, with no info key; no status-derived code is produced.
C2_ExchangeFailureIsNetworkError ==
    \A c \in Calls :
        (Settled(c) /\ ExchangeFailed(c)) =>
            /\ result[c] = NetworkError
            /\ DOMAIN result[c] = {"success", "error"}

C2_Witness ==
    \E c \in Calls :
        /\ pc[c] = "fulfilled"
        /\ transport[c] = "json_rejected"
        /\ response[c] = [status |-> 409]

\* C3: for every status other than 200 and every parsed body the result is
\* success:false, info is the body, and {code, message} is the row of the
\* fixed table for that status (unknown_error for any status not listed).
C3_ErrorTable ==
    \A c \in Calls :
        (Settled(c) /\ transport[c] = "parsed" /\ response[c].status # 200) =>
            result[c] = [success |-> FALSE, info |-> data[c],
                         error |-> TableRow(response[c].status)]

C3_Witness ==
    \E c \in Calls :
        /\ pc[c] = "fulfilled"
        /\ transport[c] = "parsed"
        /\ response[c].status = 409
        /\ data[c] = BodyEmpty
        /\ result[c].error.code = "already_claimed"

\* C4: for status 200 and every parsed body the result is success:true with
\* info and claim both the body that was passed in, and no error field.
C4_SuccessCarriesBody ==
    \A c \in Calls :
        (Settled(c) /\ transport[c] = "parsed" /\ response[c].status = 200) =>
            /\ result[c] = [success |-> TRUE, info |-> data[c], claim |-> data[c]]
            /\ "error" \notin DOMAIN result[c]

C4_Witness ==
    \E c \in Calls :
        /\ pc[c] = "fulfilled"
        /\ transport[c] = "parsed"
        /\ response[c].status = 200
        /\ data[c] = BodyClaim
        /\ result[c].claim = BodyClaim

\* C5: every result has the tagged-union shape: success:true carries info and
\* claim and no error; success:false carries error with code and message and
\* no claim, and may omit info.
C5_TaggedUnion ==
    \A c \in Calls :
        Settled(c) =>
            IF result[c].success
            THEN DOMAIN result[c] = {"success", "info", "claim"}
            ELSE /\ DOMAIN result[c] \in {{"success", "error"}, {"success", "info", "error"}}
                 /\ DOMAIN result[c].error = {"code", "message"}

C5_Witness ==
    \E c \in Calls :
        /\ pc[c] = "fulfilled"
        /\ ~result[c].success
        /\ "info" \notin DOMAIN result[c]
        /\ transport[c] = "json_rejected"
        /\ response[c] = [status |-> 200]

\* C6: each call issues exactly one GET: after any outcome no second request
\* is sent.
C6_OneGet ==
    \A c \in Calls : Len(requests[c]) = IF pc[c] = "idle" THEN 0 ELSE 1

C6_Witness ==
    \E c \in Calls :
        /\ pc[c] = "fulfilled"
        /\ transport[c] = "fetch_rejected"
        /\ Len(requests[c]) = 1
        /\ result[c].error.code = "network_error"

\* C7: concurrent calls are independent: under every interleaving the result
\* of a settled call is the one its own transport outcome determines, and a
\* step of one call leaves every other call's state untouched.
C7_Independent ==
    /\ [](\A c \in Calls : Settled(c) => result[c] = OwnResult(c))
    /\ [][\A c \in Calls :
            pc'[c] = pc[c] =>
                /\ result'[c] = result[c]
                /\ response'[c] = response[c]
                /\ data'[c] = data[c]
                /\ requests'[c] = requests[c]
                /\ args'[c] = args[c]]_vars

C7_Witness ==
    /\ \A c \in Calls : pc[c] = "fulfilled"
    /\ \E c, d \in Calls : result[c].success /\ ~result[d].success

\* C8: the descriptor's validUntil is floor(now in seconds) + 300, which lies
\* within [now, now + 300], and messages is exactly one element whose address,
\* amount, payload and stateInit are those of the claim message, unvalidated.
C8_Transaction ==
    tx # NoResult =>
        LET m == txClaim.claim_message
            secs == tx.validUntil - 300
        IN  /\ secs * 1000 <= txNow
            /\ txNow < (secs + 1) * 1000
            /\ txNow <= tx.validUntil * 1000
            /\ tx.validUntil * 1000 <= txNow + 300 * 1000
            /\ DOMAIN tx = {"validUntil", "messages"}
            /\ Len(tx.messages) = 1
            /\ DOMAIN tx.messages[1] = {"address", "amount", "payload", "stateInit"}
            /\ tx.messages[1].address = m.address
            /\ tx.messages[1].amount = m.amount
            /\ tx.messages[1].payload = m.payload
            /\ tx.messages[1].stateInit =
                  IF "state_init" \in DOMAIN m THEN m.state_init ELSE Undefined

C8_Witness ==
    /\ tx # NoResult
    /\ txNow % 1000 >= 500
    /\ txNow > 1000
    /\ txClaim.claim_message.amount = "-1.5e3"
    /\ "state_init" \notin DOMAIN txClaim.claim_message

\* C9: the GET goes to testnet-airdrop.tonapi.io when testnet is true and to
\* mainnet-airdrop.tonapi.io when it is false or omitted, with the path
\* /v2/airdrop/claim/{address}?id={airdropId} built from the arguments verbatim.
C9_Url ==
    \A c \in Calls :
        pc[c] # "idle" =>
            LET host == IF "testnet" \in DOMAIN args[c] /\ args[c].testnet = TRUE
                        THEN "testnet-airdrop.tonapi.io"
                        ELSE "mainnet-airdrop.tonapi.io"
            IN  requests[c][1] =
                    "https://" \o host \o "/v2/airdrop/claim/"
                        \o args[c].connectedAddress \o "?id=" \o args[c].airdropId

C9_Witness ==
    \E c \in Calls :
        /\ pc[c] = "fetch"
        /\ "testnet" \notin DOMAIN args[c]
        /\ requests[c] =
              << "https://mainnet-airdrop.tonapi.io/v2/airdrop/claim/not an address?id=airdrop-1" >>

\* value of the decimal strings the bodies use
DecimalValue(str) ==
    CASE str = "0" -> 0
      [] str = "100" -> 100
      [] str = "250" -> 250

HasAmounts(j) ==
    /\ j.type = "object"
    /\ {"available_jetton_amount", "total_jetton_amount"} \subseteq DOMAIN j.members

AvailableAtMostTotal(j) ==
    DecimalValue(j.members.available_jetton_amount)
        <= DecimalValue(j.members.total_jetton_amount)

\* C10 as stated: in every info carried by a returned result the available
\* amount is at most the total amount, for every body the API may return.
C10_Original ==
    \A c \in Calls :
        (Settled(c) /\ "info" \in DOMAIN result[c] /\ HasAmounts(result[c].info)) =>
            AvailableAtMostTotal(result[c].info)

\* C10 as amended: the info carried by a returned result has the amounts of
\* the body received, so available <= total holds in it whenever it holds in
\* that body; the module does not enforce the relation itself.
C10_InfoAsOrderedAsBody ==
    \A c \in Calls :
        (Settled(c) /\ "info" \in DOMAIN result[c]) =>
            /\ HasAmounts(result[c].info) <=> HasAmounts(data[c])
            /\ (HasAmounts(data[c]) /\ AvailableAtMostTotal(data[c])) =>
                  AvailableAtMostTotal(result[c].info)

C10_Witness ==
    \E c \in Calls :
        /\ pc[c] = "fulfilled"
        /\ transport[c] = "parsed"
        /\ response[c].status = 200
        /\ data[c] = BodyClaim
        /\ "info" \in DOMAIN result[c]
        /\ AvailableAtMostTotal(result[c].info)

====
